---- MODULE Spec2Model ----
(***************************************************************************)
(* Jonker-Volgenant linear assignment solver of daestruct (src/src/lap.cpp) *)
(* as a state machine: lap (column reduction, reduction transfer,           *)
(* augmenting row reduction, augmentation), augment with its d-ary heap,    *)
(* and delta_lap started from lap's solution with some rows unassigned.     *)
(* Arrays are functions over 0..dim-1 as in the source; the lists ready,    *)
(* scan and the heap storage are sequences.                                 *)
(***************************************************************************)
EXTENDS Integers, Sequences, FiniteSets, TLC

VARIABLES
  dim,          \* assigncost.dimension
  assigncost,   \* the sigma matrix: assigncost[i][j], BIG where no entry is stored
  pc,           \* position in lap / augment / delta_lap
  mode,         \* "lap" or "delta": which solver the augment loop belongs to
  v,            \* column duals
  rowsol,       \* column assigned to each row
  colsol,       \* row assigned to each column
  free,         \* int* free: list of unassigned rows
  numfree,
  matches,      \* how many columns chose the row in column reduction
  colj,         \* loop variable j of the column reduction
  k,            \* position in free during augmenting row reduction
  prvnumfree,
  loopcnt,
  j2,           \* lap's j2, kept across rows as in the source
  f,            \* index of the free row being augmented
  start,        \* augment's start row
  in_todo, is_ready, prev, dist, ready, scan,   \* augmentation_data
  pq,           \* heap storage q_ of the d_ary_heap (column per node)
  handles,      \* position in pq of the node last pushed for a column, 0 if none
  endofpath,
  min,
  sol,          \* solution returned by lap
  unassigned,   \* rows deliberately unassigned before delta_lap
  dsol,         \* solution returned by delta_lap
  entry         \* colsol and rowsol as they were when augment was entered

vars == <<dim, assigncost, pc, mode, v, rowsol, colsol, free, numfree, matches,
          colj, k, prvnumfree, loopcnt, j2, f, start, in_todo, is_ready, prev,
          dist, ready, scan, pq, handles, endofpath, min, sol, unassigned,
          dsol, entry>>

lapVars == <<free, numfree, matches, colj, k, prvnumfree, loopcnt, j2>>
augVars == <<start, in_todo, is_ready, prev, dist, ready, scan, pq, handles,
             endofpath, min, entry>>
resVars == <<sol, unassigned, dsol>>

----------------------------------------------------------------------------
(* Bounds of the checked inputs *)
Dim == 3          \* dimension of the exhaustively enumerated matrices
MaxCost == 1      \* stored costs range over 0..MaxCost
MaxAbsent == 0    \* entries a dense enumerated matrix may leave unstored
RowEntries == 2   \* entries each row of a sparse enumerated matrix stores

(* sigma_matrix (external collaborator) *)
BIG == 1000

Idx == 0 .. (dim - 1)
Cost(i, j) == assigncost[i][j]
Stored(i, j) == assigncost[i][j] # BIG

Zero(n) == [x \in 0 .. (n - 1) |-> 0]
NoSol == [cost |-> 0, rowsol |-> <<>>, colsol |-> <<>>, u |-> <<>>, v |-> <<>>]

(* rows achieving the minimum stored cost of column j *)
smallest_cost_row(j) ==
  {i \in Idx : Stored(i, j) /\ \A i2 \in Idx : Stored(i2, j) => Cost(i, j) <= Cost(i2, j)}

(* columns of row i that hold a stored entry, as the row iterator yields them *)
RowCols(i) == {j \in Idx : Stored(i, j)}

----------------------------------------------------------------------------
(* Input matrices *)
AllMatrices(n, c) == [0 .. (n - 1) -> [0 .. (n - 1) -> (0 .. c) \cup {BIG}]]

RECURSIVE MinAssign(_, _, _, _)
(* minimum total cost of matching rows i..n-1 to the columns not in used,
   over stored entries only; BIG * n or more when there is none *)
MinAssign(M, n, i, used) ==
  IF i = n THEN 0
  ELSE LET cand == {j \in 0 .. (n - 1) : j \notin used /\ M[i][j] # BIG}
           sub(j) == M[i][j] + MinAssign(M, n, i + 1, used \cup {j})
       IN IF cand = {} THEN BIG * n
          ELSE LET best == CHOOSE j \in cand : \A j3 \in cand : sub(j) <= sub(j3)
               IN sub(best)

Feasible(M, n) == MinAssign(M, n, 0, {}) < BIG

InitWith(M, n) ==
  /\ dim = n
  /\ assigncost = M
  /\ pc = "colred"
  /\ mode = "lap"
  /\ v = Zero(n)
  /\ rowsol = Zero(n)
  /\ colsol = Zero(n)
  /\ free = Zero(n)
  /\ numfree = 0
  /\ matches = Zero(n)
  /\ colj = n - 1
  /\ k = 0
  /\ prvnumfree = 0
  /\ loopcnt = 0
  /\ j2 = 0
  /\ f = 0
  /\ start = 0
  /\ in_todo = [x \in 0 .. (n - 1) |-> FALSE]
  /\ is_ready = [x \in 0 .. (n - 1) |-> FALSE]
  /\ prev = Zero(n)
  /\ dist = Zero(n)
  /\ ready = <<>>
  /\ scan = <<>>
  /\ pq = <<>>
  /\ handles = Zero(n)
  /\ endofpath = -1
  /\ min = 0
  /\ sol = NoSol
  /\ unassigned = {}
  /\ dsol = NoSol
  /\ entry = [colsol |-> Zero(n), rowsol |-> Zero(n)]

(* the matrix given row by row, X marking an entry that is not stored *)
X == BIG
Mat(rows) ==
  [i \in 0 .. (Len(rows) - 1) |-> [j \in 0 .. (Len(rows) - 1) |-> rows[i + 1][j + 1]]]

(* M and the matrices that differ from it in one entry *)
PerturbOne(M, n) ==
  {M} \cup {[M EXCEPT ![i][j] = c] :
              i \in 0 .. (n - 1), j \in 0 .. (n - 1), c \in (0 .. MaxCost) \cup {BIG}}

Absent(M, n) == Cardinality({p \in (0 .. (n - 1)) \X (0 .. (n - 1)) : M[p[1]][p[2]] = BIG})

(* sparse instances of dimension 3, 4 and 6 *)
Base3 == Mat(<< <<1, 1, X>>,
                <<0, X, 1>>,
                <<1, 0, 0>> >>)

Base4 == Mat(<< <<1, 1, 0, 1>>,
                <<X, X, 1, 1>>,
                <<0, X, X, 0>>,
                <<0, X, 1, 0>> >>)

Base4b == Mat(<< <<0, 0, X, 1>>,
                 <<1, X, 0, 0>>,
                 <<1, X, 1, 1>>,
                 <<1, 1, 0, 1>> >>)

Base6 == Mat(<< <<X, 1, X, 1, 1, X>>,
                <<X, 0, X, 0, X, 1>>,
                <<X, 0, X, 1, 1, X>>,
                <<0, 1, X, 1, X, X>>,
                <<X, X, 0, X, X, 0>>,
                <<1, 1, X, X, X, X>> >>)

(* every matrix of dimension Dim with costs 0..MaxCost and at most MaxAbsent
   entries not stored *)
InitDense ==
  \E M \in AllMatrices(Dim, MaxCost) :
    Absent(M, Dim) <= MaxAbsent /\ Feasible(M, Dim) /\ InitWith(M, Dim)

(* every matrix of dimension Dim with costs 0..MaxCost whose rows store
   RowEntries entries each *)
InitSparse ==
  \E M \in AllMatrices(Dim, MaxCost) :
    /\ \A i \in 0 .. (Dim - 1) :
         Cardinality({j \in 0 .. (Dim - 1) : M[i][j] # BIG}) = RowEntries
    /\ Feasible(M, Dim)
    /\ InitWith(M, Dim)

InitSparse3 == \E M \in PerturbOne(Base3, 3) : Feasible(M, 3) /\ InitWith(M, 3)

InitSparse4 ==
  \E M \in PerturbOne(Base4, 4) \cup PerturbOne(Base4b, 4) :
    Feasible(M, 4) /\ InitWith(M, 4)

InitSparse6 == \E M \in PerturbOne(Base6, 6) : Feasible(M, 6) /\ InitWith(M, 6)

Init == InitDense \/ InitSparse \/ InitSparse3 \/ InitSparse4

----------------------------------------------------------------------------
(* lap: COLUMN REDUCTION, one column per step, j from dim-1 down to 0 *)
ColumnReduction ==
  /\ pc = "colred"
  /\ \E imin \in smallest_cost_row(colj) :
       /\ v' = [v EXCEPT ![colj] = Cost(imin, colj)]
       /\ matches' = [matches EXCEPT ![imin] = @ + 1]
       /\ IF matches[imin] + 1 = 1
            THEN /\ rowsol' = [rowsol EXCEPT ![imin] = colj]
                 /\ colsol' = [colsol EXCEPT ![colj] = imin]
            ELSE /\ rowsol' = rowsol
                 /\ colsol' = [colsol EXCEPT ![colj] = -1]
  /\ colj' = colj - 1
  /\ pc' = IF colj = 0 THEN "transfer" ELSE "colred"
  /\ UNCHANGED <<dim, assigncost, mode, free, numfree, k, prvnumfree, loopcnt, j2,
                 f, augVars, resVars>>

(* minimum of s, a non-empty set of integers *)
SetMin(s) == CHOOSE x \in s : \A y \in s : x <= y

RECURSIVE TransferRows(_, _)
(* lap: REDUCTION TRANSFER over rows i..dim-1; st = [v, free, numfree] *)
TransferRows(st, i) ==
  IF i = dim THEN st
  ELSE IF matches[i] = 0
    THEN TransferRows([st EXCEPT !.free = [@ EXCEPT ![st.numfree] = i],
                                 !.numfree = @ + 1], i + 1)
  ELSE IF matches[i] = 1
    THEN LET j1 == rowsol[i]
             red == {Cost(i, j) - st.v[j] : j \in RowCols(i) \ {j1}}
             mn == SetMin(red \cup {BIG})
         IN TransferRows([st EXCEPT !.v = [@ EXCEPT ![j1] = @ - mn]], i + 1)
  ELSE TransferRows(st, i + 1)

ReductionTransfer ==
  /\ pc = "transfer"
  /\ LET st == TransferRows([v |-> v, free |-> free, numfree |-> numfree], 0)
     IN /\ v' = st.v
        /\ free' = st.free
        /\ numfree' = st.numfree
  /\ pc' = "arr_begin"
  /\ UNCHANGED <<dim, assigncost, mode, rowsol, colsol, matches, colj, k, prvnumfree,
                 loopcnt, j2, f, augVars, resVars>>

(* lap: AUGMENTING ROW REDUCTION, head of the do-loop body *)
ArrBegin ==
  /\ pc = "arr_begin"
  /\ loopcnt' = loopcnt + 1
  /\ k' = 0
  /\ prvnumfree' = numfree
  /\ numfree' = 0
  /\ pc' = "arr_row"
  /\ UNCHANGED <<dim, assigncost, mode, v, rowsol, colsol, free, matches, colj, j2,
                 f, augVars, resVars>>

RECURSIVE ScanRow(_, _, _)
(* minimum and second minimum reduced cost of row i over the stored columns
   from j on; st = [umin, usubmin, j1, j2] *)
ScanRow(st, i, j) ==
  IF j = dim THEN st
  ELSE IF ~Stored(i, j) THEN ScanRow(st, i, j + 1)
  ELSE LET h == Cost(i, j) - v[j]
       IN IF h < st.usubmin
            THEN IF h >= st.umin
                   THEN ScanRow([st EXCEPT !.usubmin = h, !.j2 = j], i, j + 1)
                   ELSE ScanRow([umin |-> h, usubmin |-> st.umin,
                                 j1 |-> j, j2 |-> st.j1], i, j + 1)
            ELSE ScanRow(st, i, j + 1)

(* an assignment that forgets the row side, to see that the properties of
   the assignment depend on rowsol[i] = j1 *)
AssignRowLost(rs, i, j1) == rs

(* lap: (re-)assign i to j1: rowsol[i] = j1; colsol[j1] = i *)
AssignRow(rs, i, j1) == [rs EXCEPT ![i] = j1]
AssignCol(cs, j1, i) == [cs EXCEPT ![j1] = i]

(* lap: one free row of the augmenting row reduction *)
ArrRow ==
  /\ pc = "arr_row"
  /\ k < prvnumfree
  /\ LET i == free[k]
         first == SetMin(RowCols(i))
         st == ScanRow([umin |-> Cost(i, first) - v[first], usubmin |-> BIG,
                        j1 |-> first, j2 |-> j2], i, first + 1)
         tighten == st.umin < st.usubmin
         swap == ~tighten /\ colsol[st.j1] >= 0
         j1 == IF swap THEN st.j2 ELSE st.j1
         i0 == colsol[j1]
         k1 == k + 1
     IN /\ v' = IF tighten THEN [v EXCEPT ![st.j1] = @ - (st.usubmin - st.umin)] ELSE v
        /\ j2' = st.j2
        /\ rowsol' = AssignRow(rowsol, i, j1)
        /\ colsol' = AssignCol(colsol, j1, i)
        /\ IF i0 >= 0
             THEN IF tighten
                    THEN /\ k' = k1 - 1
                         /\ free' = [free EXCEPT ![k1 - 1] = i0]
                         /\ numfree' = numfree
                    ELSE /\ k' = k1
                         /\ free' = [free EXCEPT ![numfree] = i0]
                         /\ numfree' = numfree + 1
             ELSE /\ k' = k1
                  /\ free' = free
                  /\ numfree' = numfree
  /\ UNCHANGED <<dim, assigncost, pc, mode, matches, colj, prvnumfree, loopcnt,
                 f, augVars, resVars>>

(* lap: end of a pass of the augmenting row reduction, while (loopcnt < 2) *)
ArrEnd ==
  /\ pc = "arr_row"
  /\ k >= prvnumfree
  /\ pc' = IF loopcnt < 2 THEN "arr_begin" ELSE "aug_call"
  /\ f' = 0
  /\ UNCHANGED <<dim, assigncost, mode, v, rowsol, colsol, lapVars, augVars, resVars>>

----------------------------------------------------------------------------
(* priority_queue: boost d_ary_heap, arity 4, mutable, ordered by node_compare
   on dist.  A heap is [q |-> sequence of columns, hd |-> handles]; position p
   of q is index p-1 of the heap's storage. *)
arity == 4

(* node_compare: n1 is ordered below n2 *)
node_compare(d, n1, n2) == d[n1] > d[n2]

HeapSwap(h, a, b) ==
  [q  |-> [h.q EXCEPT ![a] = h.q[b], ![b] = h.q[a]],
   hd |-> [x \in DOMAIN h.hd |->
             IF h.hd[x] = a /\ h.q[a] = x THEN b
             ELSE IF h.hd[x] = b /\ h.q[b] = x THEN a
             ELSE h.hd[x]]]

parent_index(p) == ((p - 2) \div arity) + 1
first_child(p) == arity * (p - 1) + 2

RECURSIVE siftup(_, _, _)
siftup(h, p, d) ==
  IF p = 1 THEN h
  ELSE IF node_compare(d, h.q[parent_index(p)], h.q[p])
    THEN siftup(HeapSwap(h, parent_index(p), p), parent_index(p), d)
    ELSE h

(* the first child of p that no other child is ordered above *)
top_child(h, p, d) ==
  LET last == IF first_child(p) + arity - 1 < Len(h.q)
                THEN first_child(p) + arity - 1 ELSE Len(h.q)
      kids == first_child(p) .. last
  IN CHOOSE c \in kids :
       /\ \A c2 \in kids : d[h.q[c]] <= d[h.q[c2]]
       /\ \A c2 \in kids : c2 < c => d[h.q[c2]] > d[h.q[c]]

RECURSIVE siftdown(_, _, _)
siftdown(h, p, d) ==
  IF first_child(p) > Len(h.q) THEN h
  ELSE LET c == top_child(h, p, d)
       IN IF ~node_compare(d, h.q[c], h.q[p])
            THEN siftdown(HeapSwap(h, c, p), c, d)
            ELSE h

(* pq.push(x): append, record the handle, sift up *)
HeapPush(h, x, d) ==
  siftup([q |-> Append(h.q, x), hd |-> [h.hd EXCEPT ![x] = Len(h.q) + 1]],
         Len(h.q) + 1, d)

(* pq.pop(): swap front and back, drop the back, sift the front down *)
HeapPop(h, d) ==
  LET n == Len(h.q)
      s == HeapSwap(h, 1, n)
      cut == [q  |-> SubSeq(s.q, 1, n - 1),
              hd |-> [x \in DOMAIN s.hd |-> IF s.hd[x] = n THEN 0 ELSE s.hd[x]]]
  IN IF n = 1 THEN cut ELSE siftdown(cut, 1, d)

(* pq.update(handle) for the node at position p *)
HeapUpdate(h, p, d) ==
  IF p = 1 THEN siftdown(h, 1, d)
  ELSE IF node_compare(d, h.q[parent_index(p)], h.q[p])
    THEN siftup(h, p, d)
    ELSE siftdown(h, p, d)

RECURSIVE SeedQueue(_, _, _, _)
(* augment: second loop over the start row, pushing its columns from j on *)
SeedQueue(h, i, j, d) ==
  IF j = dim THEN h
  ELSE IF Stored(i, j) THEN SeedQueue(HeapPush(h, j, d), i, j + 1, d)
  ELSE SeedQueue(h, i, j + 1, d)

----------------------------------------------------------------------------
(* augment *)
Last(sq) == sq[Len(sq)]
Front(sq) == SubSeq(sq, 1, Len(sq) - 1)

(* lap / delta_lap: call augment for free[f]; augment: reset(start) and the two
   loops over the start row *)
AugmentCall ==
  /\ pc = "aug_call"
  /\ f < numfree
  /\ LET s == free[f]
         d == [j \in Idx |-> IF Stored(s, j) THEN Cost(s, j) - v[j] ELSE dist[j]]
         h == SeedQueue([q |-> <<>>, hd |-> Zero(dim)], s, 0, d)
     IN /\ start' = s
        /\ is_ready' = [j \in Idx |-> FALSE]
        /\ in_todo' = [j \in Idx |-> Stored(s, j)]
        /\ prev' = [j \in Idx |-> s]
        /\ ready' = <<>>
        /\ scan' = <<>>
        /\ dist' = d
        /\ pq' = h.q
        /\ handles' = h.hd
  /\ endofpath' = -1
  /\ min' = 0
  /\ entry' = [colsol |-> colsol, rowsol |-> rowsol]
  /\ pc' = "stale"
  /\ UNCHANGED <<dim, assigncost, mode, v, rowsol, colsol, lapVars, f, resVars>>

(* augment: while (!pq.empty() && !in_todo[pq.top()]) pq.pop() *)
StalePop ==
  /\ pc = "stale"
  /\ pq # <<>>
  /\ ~in_todo[pq[1]]
  /\ LET h == HeapPop([q |-> pq, hd |-> handles], dist)
     IN /\ pq' = h.q
        /\ handles' = h.hd
  /\ UNCHANGED <<dim, assigncost, pc, mode, v, rowsol, colsol, lapVars, f, start,
                 in_todo, is_ready, prev, dist, ready, scan, endofpath, min, entry,
                 resVars>>

(* augment: min = dist[pq.top()]; top() of an empty heap is undefined *)
ReadMin ==
  /\ pc = "stale"
  /\ ~(pq # <<>> /\ ~in_todo[pq[1]])
  /\ IF pq = <<>>
       THEN /\ pc' = "ub"
            /\ min' = min
       ELSE /\ pc' = "batch"
            /\ min' = dist[pq[1]]
  /\ UNCHANGED <<dim, assigncost, mode, v, rowsol, colsol, lapVars, f, start,
                 in_todo, is_ready, prev, dist, ready, scan, pq, handles, endofpath,
                 entry, resVars>>

(* augment: one iteration of while (!pq.empty() && dist[pq.top()] == min) *)
BatchStep ==
  /\ pc = "batch"
  /\ pq # <<>>
  /\ dist[pq[1]] = min
  /\ LET j == pq[1]
         h == HeapPop([q |-> pq, hd |-> handles], dist)
     IN IF in_todo[j]
          THEN IF colsol[j] < 0
                 THEN /\ endofpath' = j
                      /\ pc' = "dual"
                      /\ UNCHANGED <<scan, in_todo, pq, handles>>
                 ELSE /\ scan' = Append(scan, j)
                      /\ in_todo' = [in_todo EXCEPT ![j] = FALSE]
                      /\ pq' = h.q
                      /\ handles' = h.hd
                      /\ UNCHANGED <<endofpath, pc>>
          ELSE UNCHANGED <<scan, in_todo, pq, handles, endofpath, pc>>
  /\ UNCHANGED <<dim, assigncost, mode, v, rowsol, colsol, lapVars, f, start,
                 is_ready, prev, dist, ready, min, entry, resVars>>

(* augment: the batch loop ends *)
BatchEnd ==
  /\ pc = "batch"
  /\ ~(pq # <<>> /\ dist[pq[1]] = min)
  /\ pc' = "expand"
  /\ UNCHANGED <<dim, assigncost, mode, v, rowsol, colsol, lapVars, f, augVars,
                 resVars>>

RECURSIVE ExpandRow(_, _, _, _, _)
(* augment: the loop over the stored columns of row i from j on, with
   h = assigncost(i, j1) - v[j1] and isr the is_ready flags;
   st = [dist, prev, in_todo, scan, heap, endofpath, ub] *)
ExpandRow(st, i, j, h, isr) ==
  IF j = dim \/ st.endofpath >= 0 \/ st.ub THEN st
  ELSE IF ~Stored(i, j) \/ isr[j] THEN ExpandRow(st, i, j + 1, h, isr)
  ELSE LET c_red == Cost(i, j) - v[j] - h
       IN IF ~st.in_todo[j] \/ min + c_red < st.dist[j]
            THEN LET d1 == [st.dist EXCEPT ![j] = min + c_red]
                     s1 == [st EXCEPT !.dist = d1, !.prev = [@ EXCEPT ![j] = i]]
                 IN IF c_red = 0
                      THEN IF colsol[j] < 0
                             THEN [s1 EXCEPT !.endofpath = j]
                             ELSE ExpandRow([s1 EXCEPT !.scan = Append(@, j),
                                                       !.in_todo = [@ EXCEPT ![j] = FALSE]],
                                            i, j + 1, h, isr)
                      ELSE IF ~st.in_todo[j]
                             THEN ExpandRow([s1 EXCEPT !.heap = HeapPush(@, j, d1),
                                                       !.in_todo = [@ EXCEPT ![j] = TRUE]],
                                            i, j + 1, h, isr)
                             ELSE IF st.heap.hd[j] = 0
                                    THEN [s1 EXCEPT !.ub = TRUE]
                                    ELSE ExpandRow([s1 EXCEPT !.heap =
                                                      HeapUpdate(@, st.heap.hd[j], d1)],
                                                   i, j + 1, h, isr)
            ELSE ExpandRow(st, i, j + 1, h, isr)

(* augment: take j1 from scan, mark it ready, expand the row holding it *)
Expand ==
  /\ pc = "expand"
  /\ IF scan = <<>>
       THEN /\ pc' = "ub"
            /\ UNCHANGED <<is_ready, ready, dist, prev, in_todo, scan, pq, handles,
                           endofpath>>
       ELSE LET j1 == Last(scan)
                i == colsol[j1]
                isr == [is_ready EXCEPT ![j1] = TRUE]
                h == Cost(i, j1) - v[j1]
                st == ExpandRow([dist |-> dist, prev |-> prev, in_todo |-> in_todo,
                                 scan |-> Front(scan),
                                 heap |-> [q |-> pq, hd |-> handles],
                                 endofpath |-> endofpath, ub |-> FALSE],
                                i, 0, h, isr)
            IN /\ is_ready' = isr
               /\ ready' = Append(ready, j1)
               /\ dist' = st.dist
               /\ prev' = st.prev
               /\ in_todo' = st.in_todo
               /\ scan' = st.scan
               /\ pq' = st.heap.q
               /\ handles' = st.heap.hd
               /\ endofpath' = st.endofpath
               /\ pc' = IF st.ub THEN "ub"
                        ELSE IF st.endofpath >= 0 THEN "dual"
                        ELSE IF st.scan = <<>> THEN "stale" ELSE "expand"
  /\ UNCHANGED <<dim, assigncost, mode, v, rowsol, colsol, lapVars, f, start, min,
                 entry, resVars>>

RECURSIVE ColumnPrices(_, _)
(* augment: for (j : ready) v[j] = v[j] + dist[j] - min, from position n on *)
ColumnPrices(vv, n) ==
  IF n > Len(ready) THEN vv
  ELSE ColumnPrices([vv EXCEPT ![ready[n]] = @ + dist[ready[n]] - min], n + 1)

DualUpdate ==
  /\ pc = "dual"
  /\ v' = ColumnPrices(v, 1)
  /\ pc' = "flip"
  /\ UNCHANGED <<dim, assigncost, mode, rowsol, colsol, lapVars, f, augVars, resVars>>

(* path flips that forget one side, to see that the properties of the
   solution depend on both assignments of the flip *)
FlipColLost(cs, e, i) == cs
FlipRowLost(rs, i, j1) == rs

(* augment: colsol[endofpath] = i and rowsol[i] = j1 of the path flip *)
FlipCol(cs, e, i) == [cs EXCEPT ![e] = i]
FlipRow(rs, i, j1) == [rs EXCEPT ![i] = j1]

(* augment: one iteration of the do-loop that flips the path; the loop ends,
   and augment returns, when it reaches the start row *)
FlipStep ==
  /\ pc = "flip"
  /\ IF endofpath \notin Idx
       THEN /\ pc' = "ub"
            /\ UNCHANGED <<colsol, rowsol, endofpath, f>>
       ELSE LET i == prev[endofpath]
            IN /\ colsol' = FlipCol(colsol, endofpath, i)
               /\ endofpath' = rowsol[i]
               /\ rowsol' = FlipRow(rowsol, i, endofpath)
               /\ pc' = IF i = start THEN "aug_call" ELSE "flip"
               /\ f' = IF i = start THEN f + 1 ELSE f
  /\ UNCHANGED <<dim, assigncost, mode, v, lapVars, start, in_todo, is_ready, prev,
                 dist, ready, scan, pq, handles, min, entry, resVars>>

----------------------------------------------------------------------------
RECURSIVE SumCost(_, _)
SumCost(rs, i) == IF i = dim THEN 0 ELSE Cost(i, rs[i]) + SumCost(rs, i + 1)

(* lap / delta_lap: "calculate optimal cost" and the returned solution *)
Solution ==
  [cost   |-> SumCost(rowsol, 0),
   rowsol |-> rowsol,
   colsol |-> colsol,
   u      |-> [i \in Idx |-> Cost(i, rowsol[i]) - v[rowsol[i]]],
   v      |-> v]

LapReturn ==
  /\ pc = "aug_call"
  /\ mode = "lap"
  /\ f >= numfree
  /\ IF \E i \in Idx : rowsol[i] \notin Idx
       THEN pc' = "ub" /\ sol' = sol
       ELSE pc' = "lap_done" /\ sol' = Solution
  /\ UNCHANGED <<dim, assigncost, mode, v, rowsol, colsol, lapVars, f, augVars,
                 unassigned, dsol>>

(* delta_lap on lap's solution with the rows of K unassigned: the column duals
   of the unassigned columns, the list of free rows and a fresh
   augmentation_data *)
DeltaLap ==
  /\ pc = "lap_done"
  /\ \E K \in SUBSET Idx :
       LET cols == {sol.rowsol[i] : i \in K}
           rs == [i \in Idx |-> IF i \in K THEN -1 ELSE sol.rowsol[i]]
           cs == [j \in Idx |-> IF j \in cols THEN -1 ELSE sol.colsol[j]]
           fr == {i \in Idx : rs[i] < 0}
           before(i) == Cardinality({i2 \in fr : i2 < i})
       IN /\ unassigned' = K
          /\ rowsol' = rs
          /\ colsol' = cs
          /\ v' = [j \in Idx |->
                     IF cs[j] >= 0 THEN sol.v[j]
                     ELSE SetMin({BIG} \cup {Cost(i2, j) - sol.u[i2] : i2 \in Idx})]
          /\ free' = [x \in Idx |->
                        IF \E i \in fr : before(i) = x
                          THEN CHOOSE i \in fr : before(i) = x
                          ELSE 0]
          /\ numfree' = Cardinality(fr)
  /\ f' = 0
  /\ mode' = "delta"
  /\ in_todo' = [j \in Idx |-> FALSE]
  /\ is_ready' = [j \in Idx |-> FALSE]
  /\ prev' = Zero(dim)
  /\ dist' = Zero(dim)
  /\ handles' = Zero(dim)
  /\ ready' = <<>>
  /\ scan' = <<>>
  /\ pq' = <<>>
  /\ pc' = "aug_call"
  /\ UNCHANGED <<dim, assigncost, matches, colj, k, prvnumfree, loopcnt, j2, start,
                 endofpath, min, entry, sol, dsol>>

DeltaReturn ==
  /\ pc = "aug_call"
  /\ mode = "delta"
  /\ f >= numfree
  /\ IF \E i \in Idx : rowsol[i] \notin Idx
       THEN pc' = "ub" /\ dsol' = dsol
       ELSE pc' = "delta_done" /\ dsol' = Solution
  /\ UNCHANGED <<dim, assigncost, mode, v, rowsol, colsol, lapVars, f, augVars,
                 sol, unassigned>>

Next ==
  \/ ColumnReduction
  \/ ReductionTransfer
  \/ ArrBegin
  \/ ArrRow
  \/ ArrEnd
  \/ AugmentCall
  \/ StalePop
  \/ ReadMin
  \/ BatchStep
  \/ BatchEnd
  \/ Expand
  \/ DualUpdate
  \/ FlipStep
  \/ LapReturn
  \/ DeltaLap
  \/ DeltaReturn

Spec == Init /\ [][Next]_vars

(* the solver on the matrices of dimension 6 next to Base6 *)
Spec6 == InitSparse6 /\ [][Next]_vars

----------------------------------------------------------------------------
(* Properties *)

(* a solution checkpoint: after column reduction, after reduction transfer,
   after a pass of augmenting row reduction, before and after an augment call *)
Checkpoint == pc \in {"transfer", "arr_begin", "aug_call"}
LapCheckpoint == mode = "lap" /\ Checkpoint

(* the rows some column is assigned to *)
AssignedRows(cs) == {cs[j] : j \in {j3 \in Idx : cs[j3] >= 0}}
AssignedCols(cs) == {j \in Idx : cs[j] >= 0}

Occurrences(sq, x) == Cardinality({p \in DOMAIN sq : sq[p] = x})

(* C1: the cost lap returns is the minimum over all bijections of rows to
   columns that use stored entries only *)
LapOptimal ==
  pc = "lap_done" => sol.cost = MinAssign(assigncost, dim, 0, {})

(* C2: in lap's solution every stored entry has a non-negative reduced cost
   and every matched entry has reduced cost zero *)
LapDualFeasible ==
  pc = "lap_done" =>
    /\ \A i \in Idx : \A j \in Idx :
         Stored(i, j) => Cost(i, j) - sol.u[i] - sol.v[j] >= 0
    /\ \A i \in Idx :
         Cost(i, sol.rowsol[i]) - sol.u[i] - sol.v[sol.rowsol[i]] = 0

(* C3: in lap's solution rowsol and colsol hold no sentinel, are permutations
   of 0..dim-1 and are inverse to each other *)
LapBijection ==
  pc = "lap_done" =>
    /\ \A i \in Idx : sol.rowsol[i] \in Idx /\ sol.colsol[i] \in Idx
    /\ \A i \in Idx : \A i2 \in Idx :
         (sol.rowsol[i] = sol.rowsol[i2] \/ sol.colsol[i] = sol.colsol[i2]) => i = i2
    /\ \A i \in Idx : sol.colsol[sol.rowsol[i]] = i
    /\ \A j \in Idx : sol.rowsol[sol.colsol[j]] = j

(* lap returned after augmenting at least one row along a path through
   assigned columns *)
LapBijectionWitness ==
  pc = "lap_done" /\ numfree > 0 /\ Len(ready) > 0

(* C4: delta_lap, run on lap's solution with some rows unassigned, returns the
   cost lap returned *)
DeltaSameCost ==
  pc = "delta_done" => dsol.cost = sol.cost

(* C5: lap terminates and never reads the empty queue: until lap has returned,
   the computation has not run into undefined behaviour and some step still
   changes the state *)
LapProgress ==
  (mode = "lap" /\ pc # "lap_done") => (pc # "ub" /\ ENABLED <<Next>>_vars)

(* C6: when augment(start) returns, given that no column was assigned to start
   at the call: start is assigned, the rows assigned before are still assigned,
   the assigned columns are those of before plus one that was unassigned, and
   for every assigned row colsol[j] = i exactly when rowsol[i] = j *)
AugmentReturn ==
  (pc = "aug_call" /\ f > 0 /\ start \notin AssignedRows(entry.colsol)) =>
    /\ start \in AssignedRows(colsol)
    /\ AssignedRows(entry.colsol) \subseteq AssignedRows(colsol)
    /\ AssignedCols(entry.colsol) \subseteq AssignedCols(colsol)
    /\ Cardinality(AssignedCols(colsol) \ AssignedCols(entry.colsol)) = 1
    /\ \A i \in AssignedRows(colsol) : \A j \in Idx :
         (colsol[j] = i) <=> (rowsol[i] = j)

(* augment returned after a path through at least two assigned columns *)
AugmentReturnWitness ==
  /\ pc = "aug_call" /\ f > 0
  /\ start \notin AssignedRows(entry.colsol)
  /\ Len(ready) >= 2
  /\ colsol # entry.colsol

(* a column is finalized once it is on scan or ready *)
Finalized(j) == is_ready[j] \/ Occurrences(scan, j) > 0

(* C7: within one search a finalized column keeps its dist and prev, leaves
   the frontier for good, is not pushed on scan or into the queue again and
   stands once in scan or ready *)
FinalizedOnce ==
  [][(pc \in {"stale", "batch", "expand"} /\ pc' \in {"stale", "batch", "expand", "dual"}) =>
       \A j \in Idx :
         Finalized(j) =>
           /\ dist'[j] = dist[j]
           /\ prev'[j] = prev[j]
           /\ ~in_todo'[j]
           /\ Occurrences(pq', j) <= Occurrences(pq, j)
           /\ Occurrences(scan', j) + Occurrences(ready', j) = 1]_vars

(* C8: at every checkpoint of lap, rows that do not hold the sentinel and
   columns that do not hold it point at each other, and no two rows hold the
   same column *)
LapAssignmentInverse ==
  LapCheckpoint =>
    /\ \A i \in Idx : rowsol[i] # -1 => colsol[rowsol[i]] = i
    /\ \A j \in Idx : colsol[j] # -1 => rowsol[colsol[j]] = j
    /\ \A i \in Idx : \A i2 \in Idx :
         (rowsol[i] # -1 /\ rowsol[i] = rowsol[i2]) => i = i2

(* C8 amended: at every checkpoint of lap, every column that does not hold
   the sentinel is held by the row it points at, and no two columns point at
   the same row *)
LapColumnsInverse ==
  LapCheckpoint =>
    /\ \A j \in Idx : colsol[j] # -1 => (colsol[j] \in Idx /\ rowsol[colsol[j]] = j)
    /\ \A j \in Idx : \A j3 \in Idx :
         (colsol[j] # -1 /\ colsol[j] = colsol[j3]) => j = j3

(* after the first pass of augmenting row reduction, with a column assigned
   and a row that lost its column still holding the old entry in rowsol *)
LapColumnsInverseWitness ==
  /\ LapCheckpoint /\ pc = "arr_begin" /\ loopcnt = 1
  /\ \E j \in Idx : colsol[j] # -1
  /\ \E i \in Idx : rowsol[i] # -1 /\ colsol[rowsol[i]] # i

(* C9: at every checkpoint of lap and delta_lap the matched entry of an
   assigned row has the least reduced cost of the row, and every c_red of an
   expansion is non-negative *)
ReducedCostsNonNegative ==
  /\ Checkpoint =>
       \A j \in AssignedCols(colsol) : \A j3 \in Idx :
         Stored(colsol[j], j3) =>
           Cost(colsol[j], j3) - v[j3] >= Cost(colsol[j], j) - v[j]
  /\ (pc = "expand" /\ scan # <<>>) =>
       \A j \in Idx :
         (Stored(colsol[Last(scan)], j) /\ ~is_ready[j] /\ j # Last(scan)) =>
           Cost(colsol[Last(scan)], j) - v[j]
             - (Cost(colsol[Last(scan)], Last(scan)) - v[Last(scan)]) >= 0

(* C10: when the batch loop over the queue ends and an expansion starts, no
   frontier column has a label equal to or below min *)
BatchTakesAllMinima ==
  [][BatchEnd => \A j \in Idx : in_todo'[j] => dist'[j] > min']_vars

====
